---- MODULE Spec2Model ----
(***************************************************************************)
(* A state-machine model of src/model.py: the ImageClassifier class, its   *)
(* constructor, train, evaluate, test, plot_training_performance and       *)
(* evaluation_metrics, together with the parts of the filesystem and of    *)
(* the Keras / scikit-learn calls whose effects the class relies on.       *)
(*                                                                         *)
(* Strings are sequences of one-character strings, so that str.lower() and *)
(* the f-string / os.path.join concatenations are computed, not assumed.   *)
(***************************************************************************)
EXTENDS Integers, Sequences, FiniteSets, TLC

VARIABLES
    args,      \* the arguments of the constructor call
    self,      \* the instance: its fields, self.model included
    built,     \* the backbone constructor calls made by _build_model
    pc,        \* position: "new", "failed", "idle", "fit", "makedirs", "save"
    fit,       \* the state of the running train/fit call, None outside one
    fs,        \* the filesystem: directories and files (path -> content)
    ret,       \* the outcome of the last completed call
    saved,     \* per model path, self.model as of the last train call that returned
    trainNo,   \* the number of train calls started
    nCalls,    \* the number of method calls started
    metrics    \* what evaluation_metrics computed, when it was the last call

vars == <<args, self, built, pc, fit, fs, ret, saved, trainNo, nCalls, metrics>>

\* Python's None for an optional value: the empty tuple; Some(x) holds x.
None == <<>>
Some(x) == <<x>>

-----------------------------------------------------------------------------
(* Bounds of the model.                                                    *)

MaxCalls == 2        \* method calls per behaviour of Spec
MaxEpochs == 1       \* the epochs argument of train in Spec and SpecWeights
MaxFitEpochs == 15   \* the epochs argument of train in SpecFit
MaxLabels == 3       \* length of train_data.classes in SpecWeights
MaxClasses == 4      \* number of classes (columns of prediction) in SpecMetrics
MaxSamples == 2      \* number of test samples in SpecMetrics
NumBaseLayers == 2   \* layers of a backbone

-----------------------------------------------------------------------------
(* Strings.                                                                *)

UpperChars == <<"A","B","C","D","E","F","G","H","I","J","K","L","M",
                "N","O","P","Q","R","S","T","U","V","W","X","Y","Z">>
LowerChars == <<"a","b","c","d","e","f","g","h","i","j","k","l","m",
                "n","o","p","q","r","s","t","u","v","w","x","y","z">>

LowerChar(c) ==
    IF \E i \in 1..Len(UpperChars) : UpperChars[i] = c
    THEN LowerChars[CHOOSE i \in 1..Len(UpperChars) : UpperChars[i] = c]
    ELSE c

\* Mutant of Lower: the name is used as given.
Lower_asGiven(s) == s

\* str.lower()
Lower(s) == [i \in 1..Len(s) |-> LowerChar(s[i])]

\* os.path.join(a, b) for a relative b
PathJoin(a, b) == a \o <<"/">> \o b

s_vgg16 == <<"v","g","g","1","6">>
s_inceptionv3 == <<"i","n","c","e","p","t","i","o","n","v","3">>
s_resnet50 == <<"r","e","s","n","e","t","5","0">>
s_models == <<"m","o","d","e","l","s">>
s_graphs == <<"g","r","a","p","h","s">>
s_with_weights == <<"_","w","i","t","h","_","w","e","i","g","h","t","s">>
s_data_augmentation == <<"_","d","a","t","a","_","a","u","g","m","e","n","t","a","t","i","o","n">>
s_h5 == <<".","h","5">>
s_training_png == <<"t","r","a","i","n","i","n","g","_","v","a","l","i","d","a","t","i","o","n",
                    "_","g","r","a","p","h","s",".","p","n","g">>
s_pr_png == <<"p","r","e","c","i","s","i","o","n","_","r","e","c","a","l","l",
              "_","g","r","a","p","h",".","p","n","g">>
s_cm_png == <<"c","o","n","f","u","s","i","o","n","_","m","a","t","r","i","x",".","p","n","g">>

\* The base_model_name arguments tried: the three backbones in several
\* spellings, and names the constructor does not support.
NameArgs ==
    { <<"V","G","G","1","6">>,
      <<"I","n","c","e","p","t","i","o","n","V","3">>, s_resnet50,
      <<"V","G","G","1","9">>, <<"r","e","s","n","e","t">> }

\* The input_shape arguments tried: (height, width) and (height, width, channels).
ShapeArgs == { <<120, 120>>, <<120, 120, 3>>, <<96, 128, 3>> }

NumClassesArgs == {2, 3}

ActivationArgs == {"sigmoid"}

-----------------------------------------------------------------------------
(* Construction: __init__ and _build_model.                                *)

\* The backbone selected for a (lower-cased) name, "" for the else branch.
SelectBackbone(name) ==
    IF name = s_vgg16 THEN "VGG16"
    ELSE IF name = s_inceptionv3 THEN "InceptionV3"
    ELSE IF name = s_resnet50 THEN "ResNet50"
    ELSE ""

\* The input_shape keyword handed to the backbone constructor.
BackboneInputShape(input_shape) == input_shape \o <<3>>

\* keras.applications rejects an input_shape that is not a 3-tuple.
BackboneAccepts(shape) == Len(shape) = 3

\* Mutant of BaseLayerTrainable: the freeze loop is missing.
BaseLayerTrainable_notFrozen == TRUE

\* Whether _build_model leaves a backbone layer trainable after the freeze loop.
BaseLayerTrainable == FALSE

\* A layer's weights are named by what produced them: the imagenet
\* checkpoint, the initializer, or epoch e of train call t.
Weights(src, t, e) == [src |-> src, t |-> t, e |-> e]

\* The layers of the built model: the backbone's layers, then the head.
BuildLayers(backbone, num_classes, activation) ==
    [i \in 1..NumBaseLayers |->
        [part |-> "base", kind |-> backbone, trainable |-> BaseLayerTrainable,
         w |-> Weights("imagenet", 0, 0), units |-> 0, activation |-> ""]]
    \o << [part |-> "head", kind |-> "GlobalAveragePooling2D", trainable |-> TRUE,
           w |-> Weights("none", 0, 0), units |-> 0, activation |-> ""],
          [part |-> "head", kind |-> "Dense", trainable |-> TRUE,
           w |-> Weights("init", 0, 0), units |-> num_classes,
           activation |-> activation] >>

BuildModel(backbone, shape, num_classes, activation) ==
    [backbone |-> backbone,
     input_shape |-> shape,
     layers |-> BuildLayers(backbone, num_classes, activation),
     loss |-> "binary_crossentropy"]

Unset == [input_shape |-> None, num_classes |-> 0, activation |-> "",
          base_model_name |-> None, model |-> None]

\* The outcome of a call: "return" or the exception raised, with the call's
\* (class_weights, augment) arguments, the exception's message or the path
\* written, and the History returned or passed (its val_loss series).
Outcome(op, outcome, flags, msg, history) ==
    [op |-> op, outcome |-> outcome, flags |-> flags, msg |-> msg, history |-> history]

NoFit == [class_weights |-> FALSE, augment |-> FALSE, epochs |-> 0, epoch |-> 0,
          class_weight |-> None, wait |-> 0, best |-> None, best_epoch |-> 0,
          best_weights |-> None, stop_training |-> FALSE, history |-> <<>>,
          labels |-> <<>>, model_dir |-> <<>>, filepath |-> <<>>]

\* Nothing computed yet by evaluation_metrics.
NoMetrics == [prediction |-> <<>>, true_labels |-> <<>>, stage |-> "", pred |-> <<>>,
              correct |-> 0, total |-> 0, labels |-> <<>>, conf_mat |-> <<>>]

InitWith(A) ==
    /\ args \in A
    /\ self = Unset
    /\ built = <<>>
    /\ pc = "new"
    /\ fit = NoFit
    /\ fs = [dirs |-> {}, files |-> <<>>]
    /\ ret = Outcome("", "", None, None, <<>>)
    /\ saved = <<>>
    /\ trainNo = 0
    /\ nCalls = 0
    /\ metrics = NoMetrics

Init == InitWith([input_shape : ShapeArgs, num_classes : NumClassesArgs,
                  activation : ActivationArgs, base_model_name : NameArgs])

\* ImageClassifier.__init__: the four field assignments, then _build_model.
Construct ==
    /\ pc = "new"
    /\ LET name == Lower(args.base_model_name)
           fields == [input_shape |-> args.input_shape,
                      num_classes |-> args.num_classes,
                      activation |-> args.activation,
                      base_model_name |-> name,
                      model |-> None]
           backbone == SelectBackbone(name)
           shape == BackboneInputShape(args.input_shape)
       IN  IF backbone = ""
           THEN /\ self' = fields
                /\ built' = built
                /\ pc' = "failed"
                /\ ret' = Outcome("__init__", "ValueError", None,
                                  <<"Unsupported base model name: ">> \o name, <<>>)
           ELSE IF ~BackboneAccepts(shape)
           THEN /\ self' = fields
                /\ built' = Append(built, [backbone |-> backbone, input_shape |-> shape])
                /\ pc' = "failed"
                /\ ret' = Outcome("__init__", "ValueError", None,
                                  <<"input_shape must be a tuple of three integers">>, <<>>)
           ELSE /\ self' = [fields EXCEPT !.model =
                       Some(BuildModel(backbone, shape, args.num_classes, args.activation))]
                /\ built' = Append(built, [backbone |-> backbone, input_shape |-> shape])
                /\ pc' = "idle"
                /\ ret' = Outcome("__init__", "return", None, None, <<>>)
    /\ UNCHANGED <<args, fit, fs, saved, trainNo, nCalls, metrics>>

-----------------------------------------------------------------------------
(* Helpers on sequences and functions.                                     *)

Range(s) == { s[i] : i \in 1..Len(s) }

\* The function f with key k set to v (a dict assignment, a file write).
Put(f, k, v) == [x \in (DOMAIN f) \cup {k} |-> IF x = k THEN v ELSE f[x]]

\* The elements of a finite set of integers in increasing order (np.unique).
RECURSIVE SortedSeq(_)
SortedSeq(S) ==
    IF S = {} THEN <<>>
    ELSE LET m == CHOOSE x \in S : \A y \in S : x <= y
         IN  <<m>> \o SortedSeq(S \ {m})

CountOf(s, c) == Cardinality({ i \in 1..Len(s) : s[i] = c })

\* All sequences over S of length lo..hi.
SeqsOf(S, lo, hi) == UNION { [1..n -> S] : n \in lo..hi }

-----------------------------------------------------------------------------
(* train: class weights, fit with early stopping, makedirs, save.          *)

\* Mutant of restore_best_weights: the callback keeps the last weights.
restore_best_weights_off == FALSE

\* EarlyStopping(monitor="val_loss", patience=13, restore_best_weights=True)
patience == 13
restore_best_weights == TRUE

\* sklearn compute_class_weight("balanced", classes=np.unique(y), y=y):
\* for the i-th class in increasing order, N / (K * n_i), kept as the
\* fraction <<N, K * n_i>>.
ComputeClassWeight(y) ==
    LET classes == SortedSeq(Range(y))
    IN  [i \in 1..Len(classes) |-> <<Len(y), Len(classes) * CountOf(y, classes[i])>>]

\* weights = {0: class_weight[0], 1: class_weight[1]}
WeightsDict(class_weight) == [c \in {0, 1} |-> class_weight[c + 1]]

\* The directory and file train saves the model to.
TrainModelDir(name, class_weights, augment) ==
    IF class_weights THEN PathJoin(s_models, name \o s_with_weights)
    ELSE IF augment THEN PathJoin(s_models, name \o s_data_augmentation)
    ELSE PathJoin(s_models, name)

\* Mutant of TrainFilePath: the file is named after the backbone alone.
TrainFilePath_plainName(name, class_weights, augment) ==
    PathJoin(TrainModelDir(name, class_weights, augment), name \o s_h5)

TrainFilePath(name, class_weights, augment) ==
    IF class_weights
    THEN PathJoin(TrainModelDir(name, class_weights, augment), name \o s_with_weights \o s_h5)
    ELSE IF augment
    THEN PathJoin(TrainModelDir(name, class_weights, augment),
                  name \o s_data_augmentation \o s_h5)
    ELSE PathJoin(TrainModelDir(name, class_weights, augment), name \o s_h5)

\* The content of a file: a saved model or a saved figure.
FileH5(m) == [kind |-> "h5", model |-> Some(m), fig |-> "", curves |-> {}, matrix |-> <<>>]
FilePng(fig, curves, matrix) ==
    [kind |-> "png", model |-> None, fig |-> fig, curves |-> curves, matrix |-> matrix]

\* os.makedirs(d, exist_ok=True) for a two-component relative path.
MakeDirs(dirs, base_dir, model_dir) == dirs \cup {base_dir, model_dir}

\* model.get_weights() / model.set_weights(ws)
GetWeights(m) == [i \in 1..Len(m.layers) |-> m.layers[i].w]
SetWeights(m, ws) ==
    [m EXCEPT !.layers = [i \in 1..Len(m.layers) |-> [m.layers[i] EXCEPT !.w = ws[i]]]]

\* One epoch of fit: every trainable layer that has weights gets new ones.
TrainEpoch(m, t, e) ==
    [m EXCEPT !.layers = [i \in 1..Len(m.layers) |->
        IF m.layers[i].trainable /\ m.layers[i].w.src # "none"
        THEN [m.layers[i] EXCEPT !.w = Weights("fit", t, e)]
        ELSE m.layers[i]]]

\* EarlyStopping._is_improvement with min_delta = 0 and mode min; best starts at inf.
IsImprovement(current, best) == best = None \/ current < best[1]

\* EarlyStopping.on_epoch_end, on the callback's fields kept in f.
OnEpochEnd(f, epoch, current, weights) ==
    LET bw0 == IF restore_best_weights /\ f.best_weights = None
               THEN Some(weights) ELSE f.best_weights
        improved == IsImprovement(current, f.best)
        wait == IF improved THEN 0 ELSE f.wait + 1
    IN  [f EXCEPT
           !.best = IF improved THEN Some(current) ELSE @,
           !.best_epoch = IF improved THEN epoch ELSE @,
           !.best_weights = IF improved /\ restore_best_weights THEN Some(weights) ELSE bw0,
           !.wait = wait,
           !.stop_training = wait >= patience /\ epoch > 0]

\* train up to the call of fit: the class weights (lines 86-94) and the
\* arguments fit is called with.
TrainBegin(class_weights, augment, epochs, labels) ==
    /\ pc = "idle"
    /\ nCalls < MaxCalls
    /\ nCalls' = nCalls + 1
    /\ trainNo' = trainNo + 1
    /\ IF class_weights /\ Len(ComputeClassWeight(labels)) < 2
       THEN /\ pc' = "idle"
            /\ fit' = NoFit
            /\ ret' = Outcome("train", "IndexError", <<class_weights, augment>>, labels, <<>>)
       ELSE /\ pc' = "fit"
            /\ fit' = [NoFit EXCEPT
                   !.class_weights = class_weights,
                   !.augment = augment,
                   !.epochs = epochs,
                   !.labels = IF class_weights THEN labels ELSE <<>>,
                   !.class_weight = IF class_weights
                                    THEN Some(WeightsDict(ComputeClassWeight(labels)))
                                    ELSE None]
            /\ ret' = Outcome("train", "running", <<class_weights, augment>>, None, <<>>)
    /\ metrics' = NoMetrics
    /\ UNCHANGED <<args, self, built, fs, saved>>

\* One epoch of model.fit: training, validation, the callback.
FitEpoch(val_loss) ==
    /\ pc = "fit"
    /\ fit.epoch < fit.epochs
    /\ ~fit.stop_training
    /\ LET trained == TrainEpoch(self.model[1], trainNo, fit.epoch + 1)
           f == OnEpochEnd(fit, fit.epoch, val_loss, GetWeights(trained))
       IN  /\ fit' = [f EXCEPT !.epoch = @ + 1, !.history = Append(@, val_loss)]
           /\ self' = [self EXCEPT !.model =
                  Some(IF f.stop_training /\ restore_best_weights /\ f.best_weights # None
                       THEN SetWeights(trained, f.best_weights[1])
                       ELSE trained)]
    /\ UNCHANGED <<args, built, pc, fs, ret, saved, trainNo, nCalls, metrics>>

\* fit raises (a data or resource error): train propagates the exception.
FitRaise ==
    /\ pc = "fit"
    /\ pc' = "idle"
    /\ fit' = NoFit
    /\ ret' = Outcome("train", "Exception", <<fit.class_weights, fit.augment>>, None, <<>>)
    /\ UNCHANGED <<args, self, built, fs, saved, trainNo, nCalls, metrics>>

\* fit returns: on_train_end (which, depending on the Keras release, restores
\* the best weights also after a run that was not stopped), then the choice
\* of model_dir and filepath.
FitEnd ==
    /\ pc = "fit"
    /\ fit.epoch = fit.epochs \/ fit.stop_training
    /\ \E restoreOnEnd \in BOOLEAN :
          self' = [self EXCEPT !.model =
              Some(IF restoreOnEnd /\ restore_best_weights /\ fit.best_weights # None
                   THEN SetWeights(self.model[1], fit.best_weights[1])
                   ELSE self.model[1])]
    /\ fit' = [fit EXCEPT
           !.model_dir = TrainModelDir(self.base_model_name, fit.class_weights, fit.augment),
           !.filepath = TrainFilePath(self.base_model_name, fit.class_weights, fit.augment)]
    /\ pc' = "makedirs"
    /\ UNCHANGED <<args, built, fs, ret, saved, trainNo, nCalls, metrics>>

\* os.makedirs(model_dir, exist_ok=True)
TrainMakeDirs ==
    /\ pc = "makedirs"
    /\ fs' = [fs EXCEPT !.dirs = MakeDirs(@, s_models, fit.model_dir)]
    /\ pc' = "save"
    /\ UNCHANGED <<args, self, built, fit, ret, saved, trainNo, nCalls, metrics>>

\* self.model.save(filepath)
TrainSave ==
    /\ pc = "save"
    /\ fs' = [fs EXCEPT !.files = Put(@, fit.filepath, FileH5(self.model[1]))]
    /\ pc' = "return"
    /\ UNCHANGED <<args, self, built, fit, ret, saved, trainNo, nCalls, metrics>>

\* return history
TrainReturn ==
    /\ pc = "return"
    /\ ret' = Outcome("train", "return", <<fit.class_weights, fit.augment>>, None, fit.history)
    /\ saved' = Put(saved, fit.filepath, self.model[1])
    /\ fit' = NoFit
    /\ pc' = "idle"
    /\ UNCHANGED <<args, self, built, fs, trainNo, nCalls, metrics>>

-----------------------------------------------------------------------------
(* evaluate and test.                                                      *)

\* Mutant of Evaluate: the evaluation runs a training step on the model.
Evaluate_trains ==
    /\ pc = "idle"
    /\ nCalls < MaxCalls
    /\ nCalls' = nCalls + 1
    /\ self' = [self EXCEPT !.model = Some(TrainEpoch(self.model[1], trainNo, 1))]
    /\ ret' = Outcome("evaluate", "return", None, None, <<>>)
    /\ metrics' = NoMetrics
    /\ UNCHANGED <<args, built, pc, fit, fs, saved, trainNo>>

\* return self.model.evaluate(val_data, steps=step_size)
Evaluate ==
    /\ pc = "idle"
    /\ nCalls < MaxCalls
    /\ nCalls' = nCalls + 1
    /\ ret' = Outcome("evaluate", "return", None, None, <<>>)
    /\ metrics' = NoMetrics
    /\ UNCHANGED <<args, self, built, pc, fit, fs, saved, trainNo>>

\* return self.model.predict(test_generator, steps=step_size_test, verbose=1)
Test ==
    /\ pc = "idle"
    /\ nCalls < MaxCalls
    /\ nCalls' = nCalls + 1
    /\ ret' = Outcome("test", "return", None, None, <<>>)
    /\ metrics' = NoMetrics
    /\ UNCHANGED <<args, self, built, pc, fit, fs, saved, trainNo>>

-----------------------------------------------------------------------------
(* plot_training_performance.                                              *)

\* The directory the two plotting methods write to.
PlotModelDir(name, class_weights, augment) ==
    IF class_weights THEN PathJoin(s_graphs, name \o s_with_weights)
    ELSE IF augment THEN PathJoin(s_graphs, name \o s_data_augmentation)
    ELSE PathJoin(s_graphs, name)

\* Mutant of MetricsModelDir: augment is tested before class_weights.
MetricsModelDir_augmentFirst(name, class_weights, augment) ==
    IF augment THEN PathJoin(s_graphs, name \o s_data_augmentation)
    ELSE IF class_weights THEN PathJoin(s_graphs, name \o s_with_weights)
    ELSE PathJoin(s_graphs, name)

MetricsModelDir(name, class_weights, augment) ==
    IF class_weights THEN PathJoin(s_graphs, name \o s_with_weights)
    ELSE IF augment THEN PathJoin(s_graphs, name \o s_data_augmentation)
    ELSE PathJoin(s_graphs, name)

\* Mutant of PyRange: the epochs are numbered from 1.
PyRange_fromOne(n) == [i \in 1..n |-> i]

\* range(num_epochs)
PyRange(n) == [i \in 1..n |-> i - 1]

\* The four plt.plot calls: each curve has x = range(num_epochs) and the
\* series as y.  A History produced by fit has four series of one length,
\* so the model keeps one series, val_loss, for all of them.
TrainingCurves(history) ==
    LET num_epochs == Len(history)
    IN  { [label |-> l, x |-> PyRange(num_epochs), ylen |-> Len(history)] :
            l \in {"Training Accuracy", "Validation Accuracy",
                   "Training Loss", "Validation Loss"} }

PlotTrainingPerformance(history, class_weights, augment) ==
    /\ pc = "idle"
    /\ nCalls < MaxCalls
    /\ nCalls' = nCalls + 1
    /\ IF Len(history) = 0
       THEN \* history.history["accuracy"] of an empty History, or acc[0]
            /\ ret' = Outcome("plot_training_performance", "KeyError", <<class_weights, augment>>, None, history)
            /\ fs' = fs
       ELSE LET model_dir == PlotModelDir(self.base_model_name, class_weights, augment)
                filepath == PathJoin(model_dir, s_training_png)
            IN  /\ fs' = [dirs |-> MakeDirs(fs.dirs, s_graphs, model_dir),
                          files |-> Put(fs.files, filepath,
                                        FilePng("training", TrainingCurves(history), <<>>))]
                /\ ret' = Outcome("plot_training_performance", "return", <<class_weights, augment>>, filepath, history)
    /\ metrics' = NoMetrics
    /\ UNCHANGED <<args, self, built, pc, fit, saved, trainNo>>

-----------------------------------------------------------------------------
(* evaluation_metrics.                                                     *)

\* np.argmax of one row: the first index (from 0) holding the largest score.
ArgMax(row) ==
    (CHOOSE i \in 1..Len(row) :
        /\ \A j \in 1..Len(row) : row[j] <= row[i]
        /\ \A j \in 1..(i - 1) : row[j] < row[i]) - 1

\* np.argmax(prediction, axis=1)
ArgMaxRows(prediction) == [i \in 1..Len(prediction) |-> ArgMax(prediction[i])]

\* accuracy_score: the number of matching positions (over the number of samples).
Correct(true_labels, pred) ==
    Cardinality({ i \in 1..Len(pred) : true_labels[i] = pred[i] })

\* sklearn confusion_matrix(y_true, y_pred) with labels=None: rows and columns
\* are the sorted labels that occur in y_true or y_pred.
ConfusionLabels(true_labels, pred) == SortedSeq(Range(true_labels) \cup Range(pred))

ConfusionMatrix(true_labels, pred) ==
    LET labels == ConfusionLabels(true_labels, pred)
    IN  [a \in 1..Len(labels) |-> [p \in 1..Len(labels) |->
            Cardinality({ i \in 1..Len(pred) :
                            true_labels[i] = labels[a] /\ pred[i] = labels[p] })]]

\* evaluation_metrics(prediction, test_generator, class_weights, augment);
\* test_generator.classes is true_labels and test_generator.class_indices
\* has one name per column of prediction.  The scikit-learn and seaborn
\* calls raise on the inputs they reject; where releases differ (roc_auc_score
\* with one class present, heatmap tick labels of the wrong number) the
\* outcome is a choice.
EvaluationMetrics(prediction, true_labels, class_weights, augment) ==
    /\ pc = "idle"
    /\ nCalls < MaxCalls
    /\ nCalls' = nCalls + 1
    /\ LET pred == ArgMaxRows(prediction)
           classes == Range(true_labels)
           model_dir == MetricsModelDir(self.base_model_name, class_weights, augment)
           labels == ConfusionLabels(true_labels, pred)
           conf_mat == ConfusionMatrix(true_labels, pred)
           m0 == [NoMetrics EXCEPT !.prediction = prediction,
                                   !.true_labels = true_labels, !.pred = pred]
           m1 == [m0 EXCEPT !.correct = Correct(true_labels, pred), !.total = Len(true_labels)]
           m2 == [m1 EXCEPT !.labels = labels, !.conf_mat = conf_mat]
           fs1 == [dirs |-> MakeDirs(fs.dirs, s_graphs, model_dir),
                   files |-> Put(fs.files, PathJoin(model_dir, s_pr_png),
                                 FilePng("precision_recall", {}, <<>>))]
           fs2 == [fs1 EXCEPT !.files = Put(@, PathJoin(model_dir, s_cm_png),
                                            FilePng("confusion_matrix", {}, conf_mat))]
           Raise(stage, m, f) ==
               /\ metrics' = [m EXCEPT !.stage = stage]
               /\ fs' = f
               /\ ret' = Outcome("evaluation_metrics", "ValueError", <<class_weights, augment>>, None, <<>>)
       IN  IF Len(prediction) # Len(true_labels)
           THEN Raise("accuracy_score", m0, fs)
           ELSE IF Cardinality(classes) > 2
           THEN Raise("roc_auc_score", m1, fs)
           ELSE IF ~(classes \subseteq {0, 1})
           THEN Raise("precision_recall_curve", m1, fs)
           ELSE \/ /\ Cardinality(classes) = 1
                   /\ Raise("roc_auc_score", m1, fs)
                \/ /\ Len(labels) # Len(prediction[1])
                   /\ Raise("heatmap", m2, fs1)
                \/ IF Len(labels) > 2
                   THEN Raise("precision_score", m2, fs2)
                   ELSE /\ metrics' = [m2 EXCEPT !.stage = "return"]
                        /\ fs' = fs2
                        /\ ret' = Outcome("evaluation_metrics", "return", <<class_weights, augment>>, None, <<>>)
    /\ UNCHANGED <<args, self, built, pc, fit, saved, trainNo>>

-----------------------------------------------------------------------------
(* The specifications.                                                     *)

\* The val_loss values an epoch may report.
ValLosses == {1, 2}

\* The val_loss an epoch reports in Spec, whose runs are too short for the
\* early stopping to act.
MainValLosses == {1}

\* train_data.classes in Spec: both classes present, or only one.
MainLabels == { <<0, 1, 1>>, <<0, 0>> }

\* (prediction, test_generator.classes) in Spec.
MainMetricsInputs ==
    { << <<<<1, 0>>, <<0, 1>>>>, <<0, 1>> >>,
      << <<<<1, 1>>, <<0, 1>>>>, <<1, 0>> >>,
      << <<<<1, 0>>>>, <<0, 1>> >> }

\* The History objects passed to plot_training_performance in Spec: one of
\* each length fit can return.
PlotHistories == SeqsOf(MainValLosses, 0, MaxEpochs)

Next ==
    \/ Construct
    \/ \E class_weights \in BOOLEAN, augment \in BOOLEAN,
          epochs \in 0..MaxEpochs, labels \in MainLabels :
          TrainBegin(class_weights, augment, epochs, labels)
    \/ \E val_loss \in MainValLosses : FitEpoch(val_loss)
    \/ FitRaise
    \/ FitEnd
    \/ TrainMakeDirs
    \/ TrainSave
    \/ TrainReturn
    \/ Evaluate
    \/ Test
    \/ \E history \in PlotHistories, class_weights \in BOOLEAN, augment \in BOOLEAN :
          PlotTrainingPerformance(history, class_weights, augment)
    \/ \E inp \in MainMetricsInputs, class_weights \in BOOLEAN, augment \in BOOLEAN :
          EvaluationMetrics(inp[1], inp[2], class_weights, augment)


Spec == Init /\ [][Next]_vars

\* One instance with the default arguments, for the specifications that
\* examine a single call.
DefaultArgs == { [input_shape |-> <<120, 120>>, num_classes |-> 2,
                  activation |-> "sigmoid",
                  base_model_name |-> <<"V","G","G","1","6">>] }

\* The steps of a train call after TrainBegin.
TrainSteps ==
    \/ \E val_loss \in ValLosses : FitEpoch(val_loss)
    \/ FitRaise
    \/ FitEnd
    \/ TrainMakeDirs
    \/ TrainSave
    \/ TrainReturn

\* SpecWeights: one train call on a fresh instance of two or three classes,
\* for every label list train_data.classes of up to MaxLabels labels of its
\* classes.
InitWeights ==
    InitWith({ [input_shape |-> <<120, 120>>, num_classes |-> k, activation |-> "sigmoid",
                base_model_name |-> <<"V","G","G","1","6">>] : k \in {2, 3} })

NextWeights ==
    \/ Construct
    \/ /\ pc = "idle"
       /\ trainNo = 0
       /\ \E class_weights \in BOOLEAN, augment \in BOOLEAN, epochs \in 0..MaxEpochs,
             labels \in SeqsOf(0..(self.num_classes - 1), 1, MaxLabels) :
             TrainBegin(class_weights, augment, epochs, labels)
    \/ TrainSteps

SpecWeights == InitWeights /\ [][NextWeights]_vars

\* SpecFit: one train call on a fresh instance with up to MaxFitEpochs
\* epochs.
InitFit == InitWith(DefaultArgs)

NextFit ==
    \/ Construct
    \/ /\ trainNo = 0
       /\ \E epochs \in 0..MaxFitEpochs : TrainBegin(FALSE, TRUE, epochs, <<0, 1>>)
    \/ TrainSteps

SpecFit == InitFit /\ [][NextFit]_vars

\* SpecMetrics: one evaluation_metrics call on a fresh instance, for every
\* prediction of up to MaxSamples rows of num_classes <= MaxClasses scores in {0, 1} and
\* every list test_generator.classes of up to MaxSamples labels.
InitMetrics ==
    InitWith({ [input_shape |-> <<120, 120>>, num_classes |-> k, activation |-> "sigmoid",
                base_model_name |-> <<"V","G","G","1","6">>] : k \in 2..MaxClasses })

\* The predictions of a model of k classes and the label lists of its test set.
MetricsInputs(k) ==
    SeqsOf([1..k -> {0, 1}], 1, MaxSamples) \X SeqsOf(0..(k - 1), 1, MaxSamples)

NextMetrics ==
    \/ Construct
    \/ /\ pc = "idle"
       /\ nCalls = 0
       /\ \E inp \in MetricsInputs(self.num_classes),
             class_weights \in BOOLEAN, augment \in BOOLEAN :
             EvaluationMetrics(inp[1], inp[2], class_weights, augment)

SpecMetrics == InitMetrics /\ [][NextMetrics]_vars

-----------------------------------------------------------------------------
(* The properties checked.                                                 *)

\* Two names that differ only in the case of their letters.
SameIgnoringCase(a, b) ==
    /\ Len(a) = Len(b)
    /\ \A i \in 1..Len(a) : LowerChar(a[i]) = LowerChar(b[i])

\* The backbone a constructor argument names, "" when it names none.
ExpectedBackbone(n) ==
    IF SameIgnoringCase(n, s_vgg16) THEN "VGG16"
    ELSE IF SameIgnoringCase(n, s_inceptionv3) THEN "InceptionV3"
    ELSE IF SameIgnoringCase(n, s_resnet50) THEN "ResNet50"
    ELSE ""

\* The variant name of (name, class_weights, augment).
ExpectedVariant(name, class_weights, augment) ==
    name \o (IF class_weights THEN s_with_weights
             ELSE IF augment THEN s_data_augmentation ELSE <<>>)

\* models/<variant>, models/<variant>/<variant>.h5, graphs/<variant>
ExpectedModelDir(name, cw, aug) == s_models \o <<"/">> \o ExpectedVariant(name, cw, aug)
ExpectedModelPath(name, cw, aug) ==
    ExpectedModelDir(name, cw, aug) \o <<"/">> \o ExpectedVariant(name, cw, aug) \o s_h5
ExpectedGraphDir(name, cw, aug) == s_graphs \o <<"/">> \o ExpectedVariant(name, cw, aug)

\* Whether path lies under the directory base.
IsUnder(path, base) ==
    /\ Len(path) > Len(base)
    /\ SubSeq(path, 1, Len(base) + 1) = base \o <<"/">>

\* The files and directories of f under base.
FilesUnder(f, base) ==
    [p \in { q \in DOMAIN f.files : IsUnder(q, base) } |-> f.files[p]]
DirsUnder(f, base) == { d \in f.dirs : d = base \/ IsUnder(d, base) }

\* os.path.dirname of a path that holds a "/".
DirName(path) ==
    LET last == CHOOSE i \in 1..Len(path) :
                    path[i] = "/" /\ \A j \in (i + 1)..Len(path) : path[j] # "/"
    IN  SubSeq(path, 1, last - 1)

\* The weights of the dense layer, the last layer of the model.
DenseWeights(m) == m.layers[Len(m.layers)].w

\* C1: the constructor selects exactly one backbone from base_model_name,
\* compared case-insensitively (vgg16 -> VGG16, inceptionv3 -> InceptionV3,
\* resnet50 -> ResNet50); for every other name it raises ValueError naming the
\* lower-cased name, and no model is built or assigned to the instance.
C1_BackboneSelectedByName ==
    pc # "new" =>
        LET n == args.base_model_name
            b == ExpectedBackbone(n)
        IN  IF b # ""
            THEN /\ Len(built) = 1
                 /\ built[1].backbone = b
                 /\ pc # "failed" =>
                       /\ self.model # None
                       /\ self.model[1].backbone = b
                       /\ \A i \in 1..NumBaseLayers : self.model[1].layers[i].kind = b
            ELSE /\ pc = "failed"
                 /\ ret.outcome = "ValueError"
                 /\ ret.msg = <<"Unsupported base model name: ">>
                                 \o [i \in 1..Len(n) |-> LowerChar(n[i])]
                 /\ built = <<>>
                 /\ self.model = None

\* C1 witness: the upper-case name VGG19 was rejected with the lower-cased
\* name in the message and no model.
C1_Witness ==
    /\ pc = "failed"
    /\ args.base_model_name = <<"V","G","G","1","9">>
    /\ ret.outcome = "ValueError"
    /\ ret.msg = <<"Unsupported base model name: ", "v","g","g","1","9">>
    /\ self.model = None

\* C2: after a successful construction every backbone layer is non-trainable
\* and keeps its imagenet weights, and only the head (global-average-pool,
\* then one dense layer of num_classes units) is trainable, in every state the
\* calls of train, evaluate, test, plot_training_performance and
\* evaluation_metrics reach.
C2_BackboneFrozenHeadTrainable ==
    pc \notin {"new", "failed"} =>
        LET L == self.model[1].layers
            n == Len(L)
        IN  /\ n >= 3
            /\ \A i \in 1..(n - 2) :
                  /\ L[i].part = "base"
                  /\ ~L[i].trainable
                  /\ L[i].w = Weights("imagenet", 0, 0)
            /\ L[n - 1].part = "head" /\ L[n - 1].kind = "GlobalAveragePooling2D"
            /\ L[n - 1].trainable
            /\ L[n].part = "head" /\ L[n].kind = "Dense" /\ L[n].trainable
            /\ L[n].units = self.num_classes

\* C2 witness: a train call of at least one epoch returned, and the dense
\* layer holds weights produced by fit.
C2_Witness ==
    /\ pc = "idle"
    /\ ret.op = "train" /\ ret.outcome = "return"
    /\ Len(ret.history) >= 1
    /\ DenseWeights(self.model[1]).src = "fit"

\* C3: for every (height, width, channels) shape passed to the constructor
\* with a supported name, the backbone and the built model are created with
\* exactly that input shape.
C3_InputShapeIsModelInputShape ==
    (/\ pc # "new"
     /\ Len(args.input_shape) = 3
     /\ ExpectedBackbone(args.base_model_name) # "")
    => /\ Len(built) = 1
       /\ built[1].input_shape = args.input_shape
       /\ self.model # None
       /\ self.model[1].input_shape = args.input_shape

\* C4: when train is called with class_weights true, fit receives for every
\* class c present in train_data.classes the weight N / (K * n_c); when
\* class_weights is false fit receives no class weights.
C4_ClassWeightForEveryClass ==
    pc = "fit" =>
        IF fit.class_weights
        THEN /\ fit.class_weight # None
             /\ LET d == fit.class_weight[1]
                    y == fit.labels
                    K == Cardinality(Range(y))
                IN  \A c \in Range(y) :
                       /\ c \in DOMAIN d
                       /\ d[c][1] * (K * CountOf(y, c)) = Len(y) * d[c][2]
        ELSE fit.class_weight = None

\* C5: in train, fit comes first, then the creation of the model directory,
\* then the save to models/<variant>/<variant>.h5, then the return; a train
\* call that raised created no directory and wrote no file; and the file at a
\* variant's path holds the model as of the last train call that returned
\* for that variant.
C5_TrainSavesThenReturns ==
    LET name == self.base_model_name
        dir == ExpectedModelDir(name, fit.class_weights, fit.augment)
        path == ExpectedModelPath(name, fit.class_weights, fit.augment)
    IN  /\ pc \in {"makedirs", "save", "return"} =>
              fit.epoch = fit.epochs \/ fit.stop_training
        /\ pc \in {"save", "return"} => {s_models, dir} \subseteq fs.dirs
        /\ pc = "save" =>
              /\ DOMAIN FilesUnder(fs, s_models) = DOMAIN saved
              /\ \A p \in DOMAIN saved : fs.files[p] = FileH5(saved[p])
        /\ pc = "return" =>
              /\ path \in DOMAIN fs.files
              /\ fs.files[path] = FileH5(self.model[1])
        /\ pc \in {"idle", "fit", "makedirs"} =>
              /\ DOMAIN FilesUnder(fs, s_models) = DOMAIN saved
              /\ \A p \in DOMAIN saved : fs.files[p] = FileH5(saved[p])
              /\ DirsUnder(fs, s_models) \subseteq
                    {s_models} \cup { DirName(p) : p \in DOMAIN saved }
        /\ (pc = "idle" /\ ret.op = "train" /\ ret.outcome = "return") =>
              LET rpath == ExpectedModelPath(name, ret.flags[1], ret.flags[2])
              IN  /\ rpath \in DOMAIN saved
                  /\ saved[rpath] = self.model[1]
                  /\ fs.files[rpath] = FileH5(self.model[1])

\* C5 witness: a first train call returned and saved the model, a second
\* one raised in fit after training on, and the file still holds the model of
\* the first.
C5_Witness ==
    /\ pc = "idle"
    /\ trainNo = 2
    /\ ret.op = "train" /\ ret.outcome = "Exception"
    /\ DOMAIN saved # {}
    /\ \E p \in DOMAIN saved :
          /\ saved[p] # self.model[1]
          /\ fs.files[p] = FileH5(saved[p])

\* The least value of a non-empty series, and the first epoch (from 1) that
\* reports it.
MinOf(h) == CHOOSE v \in Range(h) : \A u \in Range(h) : v <= u
FirstMinIndex(h) ==
    CHOOSE i \in 1..Len(h) : h[i] = MinOf(h) /\ \A j \in 1..(i - 1) : h[j] > h[i]

\* The last 13 epochs of the series each failed to go below the least value
\* reported before them.
NotImprovedFor13(h) ==
    /\ Len(h) > 13
    /\ \A i \in (Len(h) - 12)..Len(h) : h[i] >= MinOf(SubSeq(h, 1, i - 1))

\* The state part of C6.
C6_Bounded ==
    pc \in {"fit", "makedirs", "save", "return"} =>
        /\ ENABLED TrainSteps
        /\ fit.epoch <= fit.epochs
        /\ Len(fit.history) = fit.epoch
        /\ fit.stop_training <=> NotImprovedFor13(fit.history)
        /\ (pc # "fit" /\ ~fit.stop_training) => fit.epoch = fit.epochs
        /\ (pc # "fit" /\ fit.stop_training) =>
              DenseWeights(self.model[1]) =
                  Weights("fit", trainNo, FirstMinIndex(fit.history))
        /\ (pc = "return" /\ fit.stop_training) =>
              DenseWeights(fs.files[fit.filepath].model[1]) =
                  Weights("fit", trainNo, FirstMinIndex(fit.history))

\* The step part of C6: a step of fit that does not leave fit runs one more
\* epoch of the same call, and the steps after fit follow one another.
C6_Progress ==
    /\ (pc = "fit" /\ pc' = "fit") =>
           /\ fit'.epoch = fit.epoch + 1
           /\ fit'.epochs = fit.epochs
           /\ ~fit.stop_training
    /\ pc = "fit" => pc' \in {"fit", "makedirs", "idle"}
    /\ pc = "makedirs" => pc' = "save"
    /\ pc = "save" => pc' = "return"
    /\ pc = "return" =>
           /\ pc' = "idle"
           /\ ret'.history = fit.history
           /\ Len(ret'.history) <= fit.epochs

\* C6: train runs at most `epochs` epochs and always terminates (a step of
\* the call is always possible, and each one runs one more of the `epochs`
\* epochs or moves on towards the return); it stops early exactly when
\* val_loss has not improved for 13 consecutive epochs, and then the model
\* kept and saved has the weights of the epoch with the lowest val_loss; the
\* history has one entry per epoch run, at most `epochs`.
C6_BoundedEarlyStopping == []C6_Bounded /\ [][C6_Progress]_vars

\* C6 witness: a run of 15 epochs was stopped after 14, the first epoch being
\* the best, and its weights were restored before the return.
C6_Witness ==
    /\ pc = "return"
    /\ fit.stop_training
    /\ fit.epoch = 14 /\ fit.epochs > 14
    /\ DenseWeights(self.model[1]) = Weights("fit", 1, 1)

\* C7: whenever evaluation_metrics has computed the confusion matrix for a
\* test set in which both classes occur, the predicted class of sample i is
\* the lowest index of the largest score of row i, accuracy is the fraction
\* of samples whose predicted class equals the true label, cell [a][p] of the
\* confusion matrix is the number of samples with true label a and predicted
\* class p, the cells sum to the number of samples and the diagonal sums to
\* the number of correct predictions.
C7_StandardMetrics ==
    (/\ metrics.stage \in {"heatmap", "precision_score", "return"}
     /\ Range(metrics.true_labels) = {0, 1})
    => LET P == metrics.prediction
           y == metrics.true_labels
           pred == metrics.pred
           cm == metrics.conf_mat
           n == Len(cm)
           Count(a, p) == Cardinality({ i \in 1..Len(y) : y[i] = a /\ pred[i] = p })
           RECURSIVE Sum(_, _)
           Sum(f, S) == IF S = {} THEN 0
                        ELSE LET x == CHOOSE x \in S : TRUE IN f[x] + Sum(f, S \ {x})
           cells == [c \in (1..n) \X (1..n) |-> cm[c[1]][c[2]]]
           diag == [a \in 1..n |-> cm[a][a]]
       IN  /\ Len(pred) = Len(P)
           /\ \A i \in 1..Len(P) :
                 /\ pred[i] \in 0..(Len(P[i]) - 1)
                 /\ \A j \in 1..Len(P[i]) : P[i][j] <= P[i][pred[i] + 1]
                 /\ \A j \in 1..pred[i] : P[i][j] < P[i][pred[i] + 1]
           /\ metrics.total = Len(y)
           /\ metrics.correct = Cardinality({ i \in 1..Len(y) : pred[i] = y[i] })
           /\ \A a \in 0..(n - 1), p \in 0..(n - 1) : cm[a + 1][p + 1] = Count(a, p)
           /\ Sum(cells, DOMAIN cells) = Len(y)
           /\ Sum(diag, DOMAIN diag) = metrics.correct

\* C8: a plot_training_performance call that returned was given a history of
\* at least one epoch and has written graphs/<variant>/training_validation_graphs.png
\* with four curves of one point per epoch, x = 0 .. epochs - 1; an
\* evaluation_metrics call that returned has written precision_recall_graph.png
\* and confusion_matrix.png in graphs/<variant>; the directory exists.
C8_PlotsWritten ==
    /\ (ret.op = "plot_training_performance" /\ Len(ret.history) = 0) =>
           ret.outcome # "return"
    /\ (ret.op = "plot_training_performance" /\ ret.outcome = "return") =>
           LET dir == ExpectedGraphDir(self.base_model_name, ret.flags[1], ret.flags[2])
               path == dir \o <<"/">> \o s_training_png
               n == Len(ret.history)
           IN  /\ n >= 1
               /\ {s_graphs, dir} \subseteq fs.dirs
               /\ path \in DOMAIN fs.files
               /\ fs.files[path].kind = "png"
               /\ { c.label : c \in fs.files[path].curves } =
                      {"Training Accuracy", "Validation Accuracy",
                       "Training Loss", "Validation Loss"}
               /\ Cardinality(fs.files[path].curves) = 4
               /\ \A c \in fs.files[path].curves :
                     /\ c.x = [i \in 1..n |-> i - 1]
                     /\ c.ylen = n
    /\ (ret.op = "evaluation_metrics" /\ ret.outcome = "return") =>
           LET dir == ExpectedGraphDir(self.base_model_name, ret.flags[1], ret.flags[2])
           IN  /\ {s_graphs, dir} \subseteq fs.dirs
               /\ {dir \o <<"/">> \o s_pr_png, dir \o <<"/">> \o s_cm_png}
                     \subseteq DOMAIN fs.files
               /\ fs.files[dir \o <<"/">> \o s_cm_png].matrix = metrics.conf_mat

\* C8 witness: evaluation_metrics returned and its directory also holds the
\* training curves of an earlier plot_training_performance call.
C8_Witness ==
    /\ ret.op = "evaluation_metrics" /\ ret.outcome = "return"
    /\ LET dir == ExpectedGraphDir(self.base_model_name, ret.flags[1], ret.flags[2])
       IN  /\ dir \o <<"/">> \o s_training_png \in DOMAIN fs.files
           /\ dir \o <<"/">> \o s_cm_png \in DOMAIN fs.files
           /\ dir \o <<"/">> \o s_pr_png \in DOMAIN fs.files

\* The three backbone names an instance can hold.
BackboneNames == {s_vgg16, s_inceptionv3, s_resnet50}

\* C9: train, plot_training_performance and evaluation_metrics use one variant
\* name, <name>_with_weights when class_weights, else <name>_data_augmentation
\* when augment, else <name>: every file written lies at the path of a variant
\* of the instance's backbone, a call that returned wrote at the variant of its
\* flags, and (checked for the instance's backbone against all three, before
\* the first call) two (backbone, variant) pairs share a path only when equal.
C9_OneVariantName ==
    pc \in {"idle", "fit", "makedirs", "save", "return"} =>
        LET name == self.base_model_name
        IN  /\ \A p \in DOMAIN fs.files :
                  \E cw \in BOOLEAN, aug \in BOOLEAN :
                      \/ p = ExpectedModelPath(name, cw, aug)
                      \/ DirName(p) = ExpectedGraphDir(name, cw, aug)
            /\ (ret.outcome = "return" /\ ret.op = "train") =>
                  ExpectedModelPath(name, ret.flags[1], ret.flags[2]) \in DOMAIN fs.files
            /\ (ret.outcome = "return" /\ ret.op = "plot_training_performance") =>
                  ExpectedGraphDir(name, ret.flags[1], ret.flags[2]) \o <<"/">> \o s_training_png
                      \in DOMAIN fs.files
            /\ (ret.outcome = "return" /\ ret.op = "evaluation_metrics") =>
                  ExpectedGraphDir(name, ret.flags[1], ret.flags[2]) \o <<"/">> \o s_cm_png
                      \in DOMAIN fs.files
            /\ nCalls = 0 =>
                  \A cw \in BOOLEAN, aug \in BOOLEAN :
                     /\ TrainModelDir(name, cw, aug) = ExpectedModelDir(name, cw, aug)
                     /\ TrainFilePath(name, cw, aug) = ExpectedModelPath(name, cw, aug)
                     /\ PlotModelDir(name, cw, aug) = ExpectedGraphDir(name, cw, aug)
                     /\ MetricsModelDir(name, cw, aug) = ExpectedGraphDir(name, cw, aug)
                     /\ \A n2 \in BackboneNames, cw2 \in BOOLEAN, aug2 \in BOOLEAN :
                           LET same == /\ n2 = name
                                       /\ cw = cw2
                                       /\ (~cw => aug = aug2)
                           IN  /\ same <=> TrainFilePath(name, cw, aug)
                                              = TrainFilePath(n2, cw2, aug2)
                               /\ same <=> TrainModelDir(name, cw, aug)
                                              = TrainModelDir(n2, cw2, aug2)
                               /\ same <=> PlotModelDir(name, cw, aug)
                                              = PlotModelDir(n2, cw2, aug2)
                               /\ same <=> MetricsModelDir(name, cw, aug)
                                              = MetricsModelDir(n2, cw2, aug2)

\* C9 witness: train saved under models/<name>_with_weights and a later
\* plot_training_performance call with class_weights true and augment false
\* wrote under graphs/<name>_with_weights.
C9_Witness ==
    /\ pc = "idle"
    /\ ret.op = "plot_training_performance" /\ ret.outcome = "return"
    /\ ret.flags = <<TRUE, FALSE>>
    /\ ExpectedModelPath(self.base_model_name, TRUE, TRUE) \in DOMAIN fs.files
    /\ PathJoin(s_graphs, self.base_model_name \o s_with_weights \o <<"/">> \o s_training_png)
           \in DOMAIN fs.files

\* C10: a call of evaluate or test leaves the instance (its fields and the
\* model's weights) and every file and directory unchanged; after
\* construction the model changes only inside train, files and directories
\* under models/ change only in train's makedirs and save, and those under
\* graphs/ only in a plot_training_performance or evaluation_metrics call,
\* which leaves the instance unchanged.
C10_Step ==
    /\ (nCalls' # nCalls /\ ret'.op \in {"evaluate", "test"}) =>
           /\ self' = self
           /\ fs' = fs
           /\ ret'.outcome = "return"
    /\ (pc # "new" /\ self' # self) => pc = "fit"
    /\ (FilesUnder(fs', s_models) # FilesUnder(fs, s_models)) => pc = "save"
    /\ (DirsUnder(fs', s_models) # DirsUnder(fs, s_models)) => pc = "makedirs"
    /\ (\/ FilesUnder(fs', s_graphs) # FilesUnder(fs, s_graphs)
        \/ DirsUnder(fs', s_graphs) # DirsUnder(fs, s_graphs)) =>
           /\ nCalls' # nCalls
           /\ ret'.op \in {"plot_training_performance", "evaluation_metrics"}
           /\ self' = self

C10_EvaluateTestReadOnly == [][C10_Step]_vars

\* C10 witness: evaluate returned on an instance that train has trained and
\* saved.
C10_Witness ==
    /\ pc = "idle"
    /\ ret.op = "evaluate" /\ ret.outcome = "return"
    /\ DOMAIN saved # {}
    /\ DenseWeights(self.model[1]).src = "fit"

====
